---- MODULE Spec2Model ----
(***************************************************************************)
(* LinguaBridge: the orchestration of App.tsx (processAudioBlob,           *)
(* handleUrlSubmit, startRecording/stopRecording) over the remote calls of *)
(* services/geminiService.ts (resolveAudioLink, translateAudio,            *)
(* translateAndSynthesizeText, synthesizeSpeech).                          *)
(*                                                                         *)
(* Every await of the source is a suspension point: an operation is a      *)
(* record with a program counter naming the remote call it is waiting on,  *)
(* and one action per way that call can return or reject.                  *)
(***************************************************************************)
EXTENDS Integers, Sequences, FiniteSets, TLC

\* ------------------------------------------------------------------ bounds
\* Operations (processAudioBlob / handleUrlSubmit invocations) started in a run;
\* a microphone request or a live capture counts as the operation it leads to.
MaxOps == 2
\* Longest extracted text a resolve response carries.
MaxTextLen == 52
\* toggleAudio invocations decoding the audio at once.
MaxDecoding == 1

\* --------------------------------------------------------------- JS values
\* undefined / null / a missing JSON field.
Null == "<undefined>"

\* A text of n characters.
RECURSIVE Rep(_)
Rep(n) == IF n = 0 THEN "" ELSE "x" \o Rep(n - 1)

\* The JSON booleans of a parsed response.
JsonTrue == "true"
JsonFalse == "false"

\* JavaScript truthiness of an optional string: present and not empty.
Truthy(s) == s # Null /\ s # ""

\* String.prototype.startsWith
StartsWith(s, p) == Len(s) >= Len(p) /\ SubSeq(s, 1, Len(p)) = p

\* String.prototype.includes
Includes(s, p) ==
  \E i \in 1..(Len(s) - Len(p) + 1) : SubSeq(s, i, i + Len(p) - 1) = p

\* ------------------------------------------------------- resolveAudioLink
\* The literals of the decision policy.
HttpPrefix == "http"
MinTextLen == 50
ProtectedMsg == "ContentProtected: anti-crawler protection"
NoContentMsg == "ContentNotFound: no audio or article content"
JsonSyntaxMsg == "Unexpected token < in JSON at position 0"

Urls ==
  { Null, "", "http://cdn.example/a.mp3", "https://cdn.example/a.mp3",
    "ftp://cdn.example/a.mp3", "/relative/a.mp3" }

\* The urls of the responses the workflows are run on.
WorkflowUrls == { Null, "https://cdn.example/a.mp3", "ftp://cdn.example/a.mp3" }

\* A remote response of the resolve call: response.text parsed as JSON gives
\* an object with optional url, textContent and isProtected, or does not parse.
JsonResponses(urls, lens) ==
  [ kind : {"json"}, url : urls,
    textContent : {Null} \cup { Rep(n) : n \in lens },
    isProtected : {JsonTrue, JsonFalse, Null} ]

GarbageResponse ==
  [ kind |-> "garbage", url |-> Null, textContent |-> Null, isProtected |-> Null ]

Responses == JsonResponses(Urls, 0..MaxTextLen) \cup {GarbageResponse}

LinkUrl(u) == [ ok |-> TRUE, url |-> u, textContent |-> Null, message |-> Null ]
LinkText(t) == [ ok |-> TRUE, url |-> Null, textContent |-> t, message |-> Null ]
LinkError(m) == [ ok |-> FALSE, url |-> Null, textContent |-> Null, message |-> m ]

NoResponse ==
  [ kind |-> "none", url |-> Null, textContent |-> Null, isProtected |-> Null ]
Pending == [ state |-> "pending", link |-> LinkError(Null) ]
Returned(link) == [ state |-> "returned", link |-> link ]

\* Mutant: the text test before the URL test.
ResolveTextFirst(data) ==
  IF data.kind # "json" THEN LinkError(JsonSyntaxMsg)
  ELSE IF Truthy(data.textContent) /\ Len(data.textContent) > MinTextLen
    THEN LinkText(data.textContent)
  ELSE IF Truthy(data.url) /\ StartsWith(data.url, HttpPrefix)
          /\ data.isProtected # JsonTrue
    THEN LinkUrl(data.url)
  ELSE IF data.isProtected = JsonTrue THEN LinkError(ProtectedMsg)
  ELSE LinkError(NoContentMsg)

\* Mutant: the protection flag is never looked at after the URL test.
ResolveNoProtectedError(data) ==
  IF data.kind # "json" THEN LinkError(JsonSyntaxMsg)
  ELSE IF Truthy(data.url) /\ StartsWith(data.url, HttpPrefix)
          /\ data.isProtected # JsonTrue
    THEN LinkUrl(data.url)
  ELSE IF Truthy(data.textContent) /\ Len(data.textContent) > MinTextLen
    THEN LinkText(data.textContent)
  ELSE LinkError(NoContentMsg)

\* The try block of resolveAudioLink applied to the remote response:
\* the LinkResolution returned, or the Error thrown.
ResolveAudioLink(data) ==
  IF data.kind # "json" THEN LinkError(JsonSyntaxMsg)
  ELSE IF Truthy(data.url) /\ StartsWith(data.url, HttpPrefix)
          /\ data.isProtected # JsonTrue
    THEN LinkUrl(data.url)
  ELSE IF Truthy(data.textContent) /\ Len(data.textContent) > MinTextLen
    THEN LinkText(data.textContent)
  ELSE IF data.isProtected = JsonTrue THEN LinkError(ProtectedMsg)
  ELSE LinkError(NoContentMsg)

\* ----------------------------------------------------------- translateAudio
\* A text of a remote response, with the operation whose request it answers;
\* a field the response does not have; the literal "".
Text(o, s) == [ from |-> o, chars |-> s ]
Missing == [ from |-> 0, chars |-> Null ]
EmptyText == [ from |-> 0, chars |-> "" ]

\* The summary array of a response; an absent summary; the literal [].
SummaryOf(o) == [ from |-> o, present |-> TRUE, points |-> <<"a", "b", "c">> ]
NoSummary == [ from |-> 0, present |-> FALSE, points |-> <<>> ]
EmptySummary == [ from |-> 0, present |-> TRUE, points |-> <<>> ]

\* v || d on an optional text, and on an optional array (every array is truthy).
OrText(v, d) == IF Truthy(v.chars) THEN v ELSE d
OrSummary(v, d) == IF v.present THEN v ELSE d

\* String.prototype.substring(0, n)
Substring0(s, n) == IF Len(s) <= n THEN s ELSE SubSeq(s, 1, n)

\* The responses of the understanding call made for operation o:
\* response.text parsed as JSON gives an object with optional original,
\* translated and summary, or does not parse.
GarbageTranscript ==
  [ kind |-> "garbage", original |-> Missing, translated |-> Missing,
    summary |-> NoSummary ]
TranscriptResponses(o) ==
  [ kind : {"json"}, original : {Missing, Text(o, "original")},
    translated : {Missing, Text(o, "translated")},
    summary : {NoSummary, SummaryOf(o)} ]
  \cup {GarbageTranscript}

\* The response with every field, and the response {} (also what an empty
\* response.text is parsed as).
FullTranscript(o) ==
  [ kind |-> "json", original |-> Text(o, "original"),
    translated |-> Text(o, "translated"), summary |-> SummaryOf(o) ]
EmptyTranscript ==
  [ kind |-> "json", original |-> Missing, translated |-> Missing,
    summary |-> NoSummary ]
\* The text translation call has no original in its schema.
TextTranscript(o) ==
  [ kind |-> "json", original |-> Missing,
    translated |-> Text(o, "translated"), summary |-> SummaryOf(o) ]

\* The understanding responses the workflows are run on.
WorkflowTranscripts(o) == { FullTranscript(o), EmptyTranscript, GarbageTranscript }
WorkflowTextTranscripts(o) == { TextTranscript(o), EmptyTranscript, GarbageTranscript }

NoTranscript ==
  [ kind |-> "none", original |-> Missing, translated |-> Missing,
    summary |-> NoSummary ]

\* What an understanding step returned: ok with the three fields, or thrown.
Translation(orig, trans, summ) ==
  [ ok |-> TRUE, originalText |-> orig, translatedText |-> trans, summary |-> summ,
    message |-> Null ]
TranslationError(m) ==
  [ ok |-> FALSE, originalText |-> Missing, translatedText |-> Missing,
    summary |-> NoSummary, message |-> m ]
NoTranslation == TranslationError(Null)

\* translateAudio from JSON.parse on: the fields, each defaulted when absent.
TranslateAudio(data) ==
  IF data.kind # "json" THEN TranslationError(JsonSyntaxMsg)
  ELSE Translation(OrText(data.original, EmptyText),
                   OrText(data.translated, EmptyText),
                   OrSummary(data.summary, EmptySummary))

\* translateAndSynthesizeText from JSON.parse to the call of synthesizeSpeech:
\* the text it was given cut to 500 characters, and the fields as they came.
TranslateText(text, data) ==
  IF data.kind # "json" THEN TranslationError(JsonSyntaxMsg)
  ELSE Translation([ text EXCEPT !.chars = Substring0(@, 500) ],
                   data.translated, data.summary)

\* --------------------------------------------------------- synthesizeSpeech
SynthesisFailedMsg == "Voice synthesis failed"
UndefinedTextMsg == "Cannot read properties of undefined (reading 'substring')"

\* inlineData.data of the first part of the first candidate, when there is one.
Payloads == { Null, "", "UklGRiQAAABXQVZF" }

\* targetLang is a const of the render whose handler an operation is an
\* invocation of, so every use of it by one operation reads one value; the
\* two languages are taken in turn from one operation to the next.
TargetLangOf(o) == IF o % 2 = 1 THEN "zh" ELSE "en"

\* const voiceName = targetLang === 'zh' ? 'Kore' : 'Zephyr'
VoiceName(targetLang) == IF targetLang = "zh" THEN "Kore" ELSE "Zephyr"

\* The PCM bytes: the speech of the text that was sent, in the voice asked for.
Pcm(spoken, voice) ==
  [ ok |-> TRUE, spoken |-> spoken, voice |-> voice, message |-> Null ]
SpeechError(m) == [ ok |-> FALSE, spoken |-> Missing, voice |-> Null, message |-> m ]

\* Mutant: a response without audio gives empty PCM bytes.
SynthesizeSilence(text, targetLang, base64Audio) ==
  IF text.chars = Null THEN SpeechError(UndefinedTextMsg)
  ELSE Pcm([ text EXCEPT !.chars = Substring0(@, 1000) ], VoiceName(targetLang))

\* synthesizeSpeech on the text it is given and the payload of the response.
SynthesizeSpeech(text, targetLang, base64Audio) ==
  IF text.chars = Null THEN SpeechError(UndefinedTextMsg)
  ELSE IF ~Truthy(base64Audio) THEN SpeechError(SynthesisFailedMsg)
  ELSE Pcm([ text EXCEPT !.chars = Substring0(@, 1000) ], VoiceName(targetLang))

\* ------------------------------------------------------------------- state
VARIABLES
  processing,    \* ProcessingState: status, progress, message, error
  result,        \* the displayed TranslationResult, or NoResult
  isKeyMissing,  \* the credential-selection prompt is shown
  isPlaying,     \* playback of the synthesized audio is active
  activeSource,  \* activeSourceRef: "none", or the last source "playing" / "ended"
  decoding,      \* toggleAudio invocations between their check and source.start()
  isRecording,   \* a capture is shown as active
  micPending,    \* getUserMedia calls not yet answered
  recs,          \* the MediaRecorder instances created, by state
  mediaRecorder, \* mediaRecorderRef: an index of recs, 0 for null
  chunks,        \* chunksRef: the chunks pushed, each tagged with its recorder
  ops,           \* the operations started so far, in order of start
  thrown,        \* the Error message caught by the catch block that wrote
                 \* processing; Null when no catch block wrote it
  resp,          \* a remote resolve response (resolveAudioLink taken alone)
  out            \* what resolveAudioLink made of resp, or Pending

vars ==
  <<processing, result, isKeyMissing, isPlaying, activeSource, decoding,
    isRecording, micPending, recs, mediaRecorder, chunks, ops, thrown, resp, out>>

playVars == <<isPlaying, activeSource, decoding>>
recVars == <<isRecording, micPending, recs, mediaRecorder, chunks>>
pureVars == <<resp, out>>

NoResult == [ op |-> 0 ]

\* Mutant: the result takes the language of the latest operation started.
AssembleResultLatestLang(o, translation, pcm) ==
  [ op |-> o, originalText |-> translation.originalText,
    translatedText |-> translation.translatedText,
    summary |-> translation.summary, targetLang |-> TargetLangOf(Len(ops)),
    audio |-> [ spoken |-> pcm.spoken, voice |-> pcm.voice ] ]

\* setResult({ ...translation, targetLang, audioBlob: wavBlob, audioUrl }):
\* the TranslationResult operation o assembles; audio is what the WAV speaks.
AssembleResult(o, translation, pcm) ==
  [ op |-> o, originalText |-> translation.originalText,
    translatedText |-> translation.translatedText,
    summary |-> translation.summary, targetLang |-> TargetLangOf(o),
    audio |-> [ spoken |-> pcm.spoken, voice |-> pcm.voice ] ]

\* Messages a rejected remote call carries: the provider's answer to a missing
\* or unknown key, and a transport failure.
EntityNotFoundMsg == "Requested entity was not found."
NetworkMsg == "Failed to fetch"
RejectMsgs == { EntityNotFoundMsg, NetworkMsg }
MicErrorMsg == "Permission denied"

\* The text the catch of processAudioBlob looks for in a failure message.
KeyIndicator == "not found"

\* The resolve responses the workflows are run on.
WorkflowResponses ==
  JsonResponses(WorkflowUrls, {MinTextLen, MinTextLen + 1}) \cup {GarbageResponse}

\* -------------------------------------------------------- ProcessingState
IdleState ==
  [ status |-> "IDLE", progress |-> 0, message |-> "", error |-> Null ]
UploadingState(p) ==
  [ status |-> "UPLOADING", progress |-> p, message |-> "status_understanding",
    error |-> Null ]
SynthesizingState(p) ==
  [ status |-> "SYNTHESIZING", progress |-> p, message |-> "status_synthesizing",
    error |-> Null ]
CompletedState ==
  [ status |-> "COMPLETED", progress |-> 100, message |-> "status_completed",
    error |-> Null ]
ErrorState(msg) ==
  [ status |-> "ERROR", progress |-> 0, message |-> "status_error", error |-> msg ]

\* processAudioBlob's first write, and its write after translateAudio.
FileUploading == UploadingState(20)
\* Mutant: the synthesis checkpoint below the upload checkpoint.
FileSynthesizingLow == SynthesizingState(15)
FileSynthesizing == SynthesizingState(70)
\* handleUrlSubmit's first write, and its write on the text branch.
UrlUploading == UploadingState(10)
UrlSynthesizing == SynthesizingState(50)

isIdle == processing.status \in {"IDLE", "COMPLETED", "ERROR"}

\* ------------------------------------------------------------- operations
\* pc names the remote call the operation waits on; calls lists the remote
\* calls it has issued; progs lists the progress values it has written.
Waiting ==
  { "resolveAudioLink", "fetch", "translateAudio", "synthesizeSpeech",
    "translateText", "synthesizeText" }

NewOp(kind, call, prog, blob) ==
  [ kind |-> kind, pc |-> call, sniff |-> LinkError(Null),
    calls |-> <<call>>, progs |-> <<prog>>, blob |-> blob,
    heard |-> NoTranscript, translation |-> NoTranslation ]

\* The operation goes on to wait on the next remote call.
Issue(op, pcNext, call) == [ op EXCEPT !.pc = pcNext, !.calls = Append(@, call) ]
Wrote(op, state) == [ op EXCEPT !.progs = Append(@, state.progress) ]

\* The invocation is over: its locals are gone.
Ended(op, pcEnd) ==
  [ op EXCEPT !.pc = pcEnd, !.heard = NoTranscript, !.translation = NoTranslation ]

\* Mutant: a catch block that issues the failed call once more.
CaughtRetry(op, msg) ==
  [ op EXCEPT !.calls = Append(@, op.calls[Len(op.calls)]),
              !.progs = Append(@, 0) ]

\* The operation after a catch block ran: nothing is awaited any more.
Caught(op, msg) ==
  [ Ended(op, "failed") EXCEPT !.progs = Append(@, 0) ]

\* if (error.message?.includes("not found")) setIsKeyMissing(true)
KeyMissingAfter(msg, cur) == IF Includes(msg, KeyIndicator) THEN TRUE ELSE cur

\* Mutant: handleUrlSubmit without its text branch.
BranchUrlOnly(sniff) ==
  IF Truthy(sniff.url) THEN "audio"
  ELSE "none"

\* Mutant: handleUrlSubmit testing the text before the URL.
BranchTextFirst(sniff) ==
  IF Truthy(sniff.textContent) THEN "text"
  ELSE IF Truthy(sniff.url) THEN "audio"
  ELSE "none"

\* handleUrlSubmit: if (sniff.url) ... else if (sniff.textContent) ...
Branch(sniff) ==
  IF Truthy(sniff.url) THEN "audio"
  ELSE IF Truthy(sniff.textContent) THEN "text"
  ELSE "none"

\* Recorders that have not handed their blob over yet.
Live == { r \in DOMAIN recs : recs[r] \in {"recording", "stopping"} }

\* Operations started, and those the microphone requests and captures lead to.
Budgeted == Len(ops) + micPending + Cardinality(Live)

\* --------------------------------------------------------------- start-up
Init ==
  /\ processing = IdleState
  /\ result = NoResult
  /\ isKeyMissing \in BOOLEAN
  /\ isPlaying = FALSE
  /\ activeSource = "none"
  /\ decoding = 0
  /\ isRecording = FALSE
  /\ micPending = 0
  /\ recs = <<>>
  /\ mediaRecorder = 0
  /\ chunks = <<>>
  /\ ops = <<>>
  /\ thrown = Null
  /\ resp = NoResponse
  /\ out = Pending

\* ------------------------------------------------------ processAudioBlob
\* The synchronous head of processAudioBlob, up to the await of translateAudio.
StopAudioPlayback ==
  /\ activeSource' = "none"
  /\ isPlaying' = FALSE

ProcessAudioBlobHead ==
  /\ StopAudioPlayback
  /\ result' = NoResult
  /\ processing' = FileUploading

\* The catch block of processAudioBlob.
ProcessAudioBlobCatch(o, msg) ==
  /\ isKeyMissing' = KeyMissingAfter(msg, isKeyMissing)
  /\ processing' = ErrorState(msg)
  /\ ops' = [ ops EXCEPT ![o] = Caught(@, msg) ]
  /\ thrown' = msg
  /\ UNCHANGED <<result, playVars, recVars, pureVars>>

\* A file is picked in the upload dialog, which opens only when isIdle.
FileSelected ==
  /\ Budgeted < MaxOps
  /\ isIdle
  /\ ProcessAudioBlobHead
  /\ ops' = Append(ops, NewOp("file", "translateAudio", FileUploading.progress, <<>>))
  /\ thrown' = Null
  /\ UNCHANGED <<isKeyMissing, decoding, recVars, pureVars>>

\* The understanding call answers: translateAudio returns what it makes of the
\* response, or JSON.parse throws.
TranslateAudioReturn(o) ==
  /\ ops[o].pc = "translateAudio"
  /\ \E data \in WorkflowTranscripts(o) :
       LET translation == TranslateAudio(data) IN
       IF ~translation.ok
       THEN ProcessAudioBlobCatch(o, translation.message)
       ELSE /\ processing' = FileSynthesizing
            /\ ops' = [ ops EXCEPT ![o] =
                 Wrote(Issue([ @ EXCEPT !.heard = data, !.translation = translation ],
                             "synthesizeSpeech", "synthesizeSpeech"),
                       FileSynthesizing) ]
            /\ thrown' = Null
            /\ UNCHANGED <<result, isKeyMissing, playVars, recVars, pureVars>>

\* The understanding call rejects.
TranslateAudioFail(o) ==
  /\ ops[o].pc = "translateAudio"
  /\ \E msg \in RejectMsgs : ProcessAudioBlobCatch(o, msg)

\* The speech call answers: with PCM bytes the result is assembled and shown,
\* without an audio payload synthesizeSpeech throws.
SynthesizeReturn(o) ==
  /\ ops[o].pc = "synthesizeSpeech"
  /\ \E base64Audio \in Payloads :
       LET pcmData == SynthesizeSpeech(ops[o].translation.translatedText, TargetLangOf(o),
                                        base64Audio) IN
       IF ~pcmData.ok
       THEN ProcessAudioBlobCatch(o, pcmData.message)
       ELSE /\ result' = AssembleResult(o, ops[o].translation, pcmData)
            /\ processing' = CompletedState
            /\ ops' = [ ops EXCEPT ![o] =
                 Wrote(Ended(@, "done"), CompletedState) ]
            /\ thrown' = Null
            /\ UNCHANGED <<isKeyMissing, playVars, recVars, pureVars>>

\* The speech call rejects.
SynthesizeFail(o) ==
  /\ ops[o].pc = "synthesizeSpeech"
  /\ \E msg \in RejectMsgs : ProcessAudioBlobCatch(o, msg)

\* ------------------------------------------------------- handleUrlSubmit
HandleUrlSubmitCatch(o, msg) ==
  /\ processing' = ErrorState(msg)
  /\ ops' = [ ops EXCEPT ![o] = Caught(@, msg) ]
  /\ thrown' = msg
  /\ UNCHANGED <<result, isKeyMissing, playVars, recVars, pureVars>>

\* The submit button: nothing happens on an empty urlInput.
HandleUrlSubmit ==
  /\ Budgeted < MaxOps
  /\ \E urlInput \in {"", "https://blog.example/post"} :
       IF urlInput = ""
       THEN UNCHANGED vars
       ELSE /\ result' = NoResult
            /\ processing' = UrlUploading
            /\ ops' = Append(ops, NewOp("url", "resolveAudioLink", UrlUploading.progress, <<>>))
            /\ thrown' = Null
            /\ UNCHANGED <<isKeyMissing, playVars, recVars, pureVars>>

\* resolveAudioLink returns or throws on a response; handleUrlSubmit branches.
ResolveReturn(o) ==
  /\ ops[o].pc = "resolveAudioLink"
  /\ \E data \in WorkflowResponses :
       LET sniff == ResolveAudioLink(data) IN
       IF ~sniff.ok
       THEN HandleUrlSubmitCatch(o, sniff.message)
       ELSE /\ ops' = [ ops EXCEPT ![o] =
                 LET op == [ @ EXCEPT !.sniff = sniff ] IN
                 CASE Branch(sniff) = "audio" -> Issue(op, "fetch", "fetch")
                   [] Branch(sniff) = "text" ->
                        Wrote(Issue(op, "translateText", "translateText"),
                              UrlSynthesizing)
                   [] OTHER -> Ended(op, "returned") ]
            /\ processing' =
                 IF Branch(sniff) = "text" THEN UrlSynthesizing ELSE processing
            /\ thrown' = IF Branch(sniff) = "text" THEN Null ELSE thrown
            /\ UNCHANGED <<result, isKeyMissing, playVars, recVars, pureVars>>

\* The resolve call itself rejects.
ResolveReject(o) ==
  /\ ops[o].pc = "resolveAudioLink"
  /\ \E msg \in RejectMsgs : HandleUrlSubmitCatch(o, msg)

\* fetch and res.blob() give the audio bytes: processAudioBlob(blob) starts.
FetchReturn(o) ==
  /\ ops[o].pc = "fetch"
  /\ ProcessAudioBlobHead
  /\ ops' = [ ops EXCEPT ![o] =
                Wrote(Issue(@, "translateAudio", "translateAudio"), FileUploading) ]
  /\ thrown' = Null
  /\ UNCHANGED <<isKeyMissing, decoding, recVars, pureVars>>

FetchReject(o) ==
  /\ ops[o].pc = "fetch"
  /\ HandleUrlSubmitCatch(o, NetworkMsg)

\* translateAndSynthesizeText: the translation call answers; JSON.parse may
\* throw; with a translated text synthesizeSpeech is called, without one its
\* substring throws.
TranslateTextReturn(o) ==
  /\ ops[o].pc = "translateText"
  /\ \E data \in WorkflowTextTranscripts(o) :
       LET transData == TranslateText(Text(o, ops[o].sniff.textContent), data) IN
       IF ~transData.ok
       THEN HandleUrlSubmitCatch(o, transData.message)
       ELSE IF transData.translatedText.chars = Null
       THEN HandleUrlSubmitCatch(o,
              SynthesizeSpeech(transData.translatedText, TargetLangOf(o), Null).message)
       ELSE /\ ops' = [ ops EXCEPT ![o] =
                 Issue([ @ EXCEPT !.heard = data, !.translation = transData ],
                       "synthesizeText", "synthesizeSpeech") ]
            /\ UNCHANGED <<processing, result, isKeyMissing, playVars, recVars, thrown,
                           pureVars>>

TranslateTextFail(o) ==
  /\ ops[o].pc = "translateText"
  /\ \E msg \in RejectMsgs : HandleUrlSubmitCatch(o, msg)

\* The speech call of translateAndSynthesizeText answers.
SynthesizeTextReturn(o) ==
  /\ ops[o].pc = "synthesizeText"
  /\ \E base64Audio \in Payloads :
       LET pcmData == SynthesizeSpeech(ops[o].translation.translatedText, TargetLangOf(o),
                                        base64Audio) IN
       IF ~pcmData.ok
       THEN HandleUrlSubmitCatch(o, pcmData.message)
       ELSE /\ result' = AssembleResult(o, ops[o].translation, pcmData)
            /\ processing' = CompletedState
            /\ ops' = [ ops EXCEPT ![o] =
                 Wrote(Ended(@, "done"), CompletedState) ]
            /\ thrown' = Null
            /\ UNCHANGED <<isKeyMissing, playVars, recVars, pureVars>>

SynthesizeTextFail(o) ==
  /\ ops[o].pc = "synthesizeText"
  /\ \E msg \in RejectMsgs : HandleUrlSubmitCatch(o, msg)

\* ------------------------------------------- startRecording / stopRecording
\* The microphone button, shown while no capture is active: getUserMedia is asked.
StartRecording ==
  /\ ~isRecording
  /\ Budgeted < MaxOps
  /\ micPending' = micPending + 1
  /\ UNCHANGED <<processing, result, isKeyMissing, playVars, isRecording, recs,
                 mediaRecorder, chunks, ops, thrown, pureVars>>

\* getUserMedia resolves: a recorder is created and started, chunksRef is reset.
MicGranted ==
  /\ micPending > 0
  /\ micPending' = micPending - 1
  /\ recs' = Append(recs, "recording")
  /\ mediaRecorder' = Len(recs) + 1
  /\ chunks' = <<>>
  /\ isRecording' = TRUE
  /\ UNCHANGED <<processing, result, isKeyMissing, playVars, ops, thrown, pureVars>>

\* getUserMedia rejects: the catch block of startRecording.
MicDenied ==
  /\ micPending > 0
  /\ micPending' = micPending - 1
  /\ processing' = ErrorState("Mic denied.")
  /\ thrown' = MicErrorMsg
  /\ UNCHANGED <<result, isKeyMissing, playVars, isRecording, recs,
                 mediaRecorder, chunks, ops, pureVars>>

\* stopRecording: the recorder is told to stop when there is one and a capture
\* is shown as active; otherwise nothing happens.
StopRecording ==
  IF mediaRecorder # 0 /\ isRecording
  THEN /\ recs' = [ recs EXCEPT ![mediaRecorder] = "stopping" ]
       /\ isRecording' = FALSE
       /\ UNCHANGED <<processing, result, isKeyMissing, playVars, micPending,
                      mediaRecorder, chunks, ops, thrown, pureVars>>
  ELSE UNCHANGED vars

\* The recorder's stop task: ondataavailable pushes the recorded data, then
\* onstop builds the blob from chunksRef and calls processAudioBlob.
RecorderStopped(r) ==
  /\ recs[r] = "stopping"
  /\ recs' = [ recs EXCEPT ![r] = "inactive" ]
  /\ chunks' = Append(chunks, r)
  /\ ProcessAudioBlobHead
  /\ ops' = Append(ops, NewOp("record", "translateAudio", FileUploading.progress,
                              Append(chunks, r)))
  /\ thrown' = Null
  /\ UNCHANGED <<isKeyMissing, decoding, isRecording, micPending, mediaRecorder,
                 pureVars>>

\* ------------------------------------------------------------ toggleAudio
\* The play button while playing: stopAudioPlayback.
ToggleAudioStop ==
  /\ result # NoResult
  /\ isPlaying
  /\ StopAudioPlayback
  /\ UNCHANGED <<processing, result, isKeyMissing, decoding, recVars, ops, thrown,
                 pureVars>>

\* The play button while not playing: the audio bytes are read and decoded.
ToggleAudioStart ==
  /\ result # NoResult
  /\ ~isPlaying
  /\ decoding < MaxDecoding
  /\ decoding' = decoding + 1
  /\ UNCHANGED <<processing, result, isKeyMissing, isPlaying, activeSource, recVars,
                 ops, thrown, pureVars>>

\* decodeAudioData resolves: the source is created, referenced and started.
ToggleAudioPlay ==
  /\ decoding > 0
  /\ decoding' = decoding - 1
  /\ activeSource' = "playing"
  /\ isPlaying' = TRUE
  /\ UNCHANGED <<processing, result, isKeyMissing, recVars, ops, thrown, pureVars>>

\* source.onended: the referenced source played to its end.
SourceEnded ==
  /\ activeSource = "playing"
  /\ activeSource' = "ended"
  /\ isPlaying' = FALSE
  /\ UNCHANGED <<processing, result, isKeyMissing, decoding, recVars, ops, thrown,
                 pureVars>>

\* ------------------------------------------------------- credential prompt
HandleSelectKey ==
  /\ isKeyMissing
  /\ isKeyMissing' = FALSE
  /\ UNCHANGED <<processing, result, playVars, recVars, ops, thrown, pureVars>>

KeyButton ==
  /\ ~isKeyMissing
  /\ isKeyMissing' = TRUE
  /\ UNCHANGED <<processing, result, playVars, recVars, ops, thrown, pureVars>>

\* ---------------------------------------------------------- specification
\* A remote call of operation o answers or rejects.
Returns(o) ==
  /\ o \in DOMAIN ops
  /\ \/ TranslateAudioReturn(o)
     \/ TranslateAudioFail(o)
     \/ SynthesizeReturn(o)
     \/ SynthesizeFail(o)
     \/ ResolveReturn(o)
     \/ ResolveReject(o)
     \/ FetchReturn(o)
     \/ FetchReject(o)
     \/ TranslateTextReturn(o)
     \/ TranslateTextFail(o)
     \/ SynthesizeTextReturn(o)
     \/ SynthesizeTextFail(o)

\* The three workflows and the credential prompt.
Workflows ==
  \/ FileSelected
  \/ HandleUrlSubmit
  \/ HandleSelectKey
  \/ KeyButton
  \/ StartRecording
  \/ MicGranted
  \/ MicDenied
  \/ StopRecording
  \/ \E r \in DOMAIN recs : RecorderStopped(r)
  \/ \E o \in DOMAIN ops : TranslateAudioReturn(o)
  \/ \E o \in DOMAIN ops : TranslateAudioFail(o)
  \/ \E o \in DOMAIN ops : SynthesizeReturn(o)
  \/ \E o \in DOMAIN ops : SynthesizeFail(o)
  \/ \E o \in DOMAIN ops : ResolveReturn(o)
  \/ \E o \in DOMAIN ops : ResolveReject(o)
  \/ \E o \in DOMAIN ops : FetchReturn(o)
  \/ \E o \in DOMAIN ops : FetchReject(o)
  \/ \E o \in DOMAIN ops : TranslateTextReturn(o)
  \/ \E o \in DOMAIN ops : TranslateTextFail(o)
  \/ \E o \in DOMAIN ops : SynthesizeTextReturn(o)
  \/ \E o \in DOMAIN ops : SynthesizeTextFail(o)

\* The play button and the audio source.
Playback ==
  \/ ToggleAudioStop
  \/ ToggleAudioStart
  \/ ToggleAudioPlay
  \/ SourceEnded

Next ==
  \/ Workflows
  \/ Playback

Spec == Init /\ [][Next]_vars

\* The workflows without the play button. The playback actions write
\* isPlaying, activeSource and decoding only, and no workflow action reads
\* them: the workflows reach the same processing, result and operations with
\* and without playback.
SpecWorkflows == Init /\ [][Workflows]_vars

\* The workflows when every remote call eventually answers or rejects.
SpecFair ==
  /\ Init
  /\ [][Workflows]_vars
  /\ \A o \in 1..MaxOps : WF_vars(Returns(o))

\* resolveAudioLink alone, on every response within the bounds.
InitResolve ==
  /\ processing = IdleState
  /\ result = NoResult
  /\ isKeyMissing = FALSE
  /\ isPlaying = FALSE
  /\ activeSource = "none"
  /\ decoding = 0
  /\ isRecording = FALSE
  /\ micPending = 0
  /\ recs = <<>>
  /\ mediaRecorder = 0
  /\ chunks = <<>>
  /\ ops = <<>>
  /\ thrown = Null
  /\ resp \in Responses
  /\ out = Pending

ApplyResolve ==
  /\ out = Pending
  /\ out' = Returned(ResolveAudioLink(resp))
  /\ UNCHANGED <<processing, result, isKeyMissing, playVars, recVars, ops, thrown,
                 resp>>

NextResolve == ApplyResolve

SpecResolve == InitResolve /\ [][NextResolve]_vars

\* ------------------------------------------------------------- properties
HttpUrls == { "http://cdn.example/a.mp3", "https://cdn.example/a.mp3" }

IsPrefix(s, t) == Len(s) <= Len(t) /\ s = SubSeq(t, 1, Len(s))

\* Operation o takes a step.
Steps(o) == ops'[o] # ops[o]

\* Operation o's catch block runs in this step.
Fails(o) == ops[o].pc \in Waiting /\ ops'[o].pc = "failed"

\* C1: once a newer operation has started, a step of an earlier operation
\* (its remote call returning or failing) changes neither the processing
\* state nor the displayed result.
C1_StaleOperationWritesNothing ==
  [][ \A o \in DOMAIN ops :
        (o < Len(ops) /\ Steps(o)) => UNCHANGED <<processing, result>> ]_vars

\* C2: a response whose url begins with an HTTP scheme and that is not
\* flagged protected resolves to that URL and carries no text, whatever
\* text the response has.
C2_UsableUrlWins ==
  (out.state = "returned" /\ resp.kind = "json" /\ resp.url \in HttpUrls
     /\ resp.isProtected # JsonTrue)
  => (out.link.ok /\ out.link.url = resp.url /\ out.link.textContent = Null)

C2_Witness ==
  /\ out.state = "returned"
  /\ resp.kind = "json"
  /\ resp.url \in HttpUrls
  /\ resp.isProtected = JsonFalse
  /\ resp.textContent # Null /\ Len(resp.textContent) = 52
  /\ out.link.url = resp.url

\* C3: with no usable URL and no protection flag, a text of at least 50
\* characters resolves to the text branch and a text of at most 49 characters
\* fails with ContentNotFound.
C3_TextThresholdFifty ==
  (out.state = "returned" /\ resp.kind = "json" /\ resp.url \notin HttpUrls
     /\ resp.isProtected # JsonTrue /\ resp.textContent # Null)
  => IF Len(resp.textContent) >= 50
     THEN out.link.ok /\ out.link.textContent = resp.textContent
     ELSE ~out.link.ok /\ out.link.message = NoContentMsg

\* C4 as claimed: a protected response with no usable URL fails with
\* ContentProtected whatever text it carries.
C4_ProtectedAlwaysFails ==
  (out.state = "returned" /\ resp.kind = "json" /\ resp.url \notin HttpUrls
     /\ resp.isProtected = JsonTrue)
  => (~out.link.ok /\ out.link.message = ProtectedMsg)

\* C4 as amended: a protected response with no usable URL fails with
\* ContentProtected when its text is absent or at most 50 characters long,
\* and resolves to the text branch when its text is longer than 50 characters.
C4_ProtectedFailsUnlessLongText ==
  (out.state = "returned" /\ resp.kind = "json" /\ resp.url \notin HttpUrls
     /\ resp.isProtected = JsonTrue)
  => IF resp.textContent # Null /\ Len(resp.textContent) > 50
     THEN out.link.ok /\ out.link.textContent = resp.textContent
          /\ out.link.url = Null
     ELSE ~out.link.ok /\ out.link.message = ProtectedMsg

C4_Witness ==
  /\ out.state = "returned"
  /\ resp.kind = "json"
  /\ resp.url = Null
  /\ resp.isProtected = JsonTrue
  /\ resp.textContent # Null /\ Len(resp.textContent) = 50
  /\ ~out.link.ok /\ out.link.message = ProtectedMsg

\* C5 as claimed: no write of progress by a started operation, the writes of
\* its failure paths included, lowers the progress value.
C5_ProgressNeverDecreases ==
  [][ \A o \in DOMAIN ops :
        ops'[o].progs # ops[o].progs
          => processing'.progress >= processing.progress ]_vars

\* C5 as amended: the progress values one operation writes never decrease up
\* to COMPLETED; the only write that lowers them is the one that sets ERROR,
\* which resets progress to 0.
C5_ProgressMonotoneUntilError ==
  \A o \in DOMAIN ops :
    \A i \in 1..(Len(ops[o].progs) - 1) :
      \/ ops[o].progs[i + 1] >= ops[o].progs[i]
      \/ /\ i + 1 = Len(ops[o].progs)
         /\ ops[o].pc = "failed"
         /\ ops[o].progs[i + 1] = 0

C5_Witness ==
  \E o \in DOMAIN ops :
    /\ ops[o].kind = "url"
    /\ ops[o].pc = "failed"
    /\ ops[o].progs = <<10, 20, 70, 0>>

\* C6: while the most recently started operation is in flight, no result is
\* displayed.
C6_NoResultWhileInFlight ==
  (Len(ops) > 0 /\ ops[Len(ops)].pc \in Waiting) => result = NoResult

\* C7: when a remote step of an operation fails, the operation sets status
\* ERROR with the failure's message, issues no further remote call, and no
\* operation issues the same remote call twice.
C7_FailureIsTerminal ==
  [][ \A o \in DOMAIN ops :
        /\ Fails(o) =>
             /\ processing'.status = "ERROR"
             /\ thrown' # Null
             /\ processing'.error = thrown'
             /\ ops'[o].calls = ops[o].calls
        /\ ops[o].pc = "failed" => ops'[o] = ops[o]
        /\ ops'[o].calls # ops[o].calls =>
             /\ ops[o].pc \in Waiting
             /\ \E call \in Waiting \cup {"synthesizeSpeech"} :
                  /\ ops'[o].calls = Append(ops[o].calls, call)
                  /\ \A i \in DOMAIN ops[o].calls : ops[o].calls[i] # call ]_vars

C7_Witness ==
  \E o \in DOMAIN ops :
    /\ ops[o].kind = "url"
    /\ ops[o].pc = "failed"
    /\ ops[o].calls = <<"resolveAudioLink", "fetch", "translateAudio", "synthesizeSpeech">>
    /\ thrown = SynthesisFailedMsg
    /\ processing.status = "ERROR"
    /\ processing.error = SynthesisFailedMsg

\* C8: in every state with status ERROR no result is displayed.
C8_ErrorShowsNoResult ==
  processing.status = "ERROR" => result = NoResult

\* C9: a failing step of any workflow re-arms the credential prompt if and
\* only if the failure message contains "not found".
C9_RearmIffIndicator ==
  [][ \A o \in DOMAIN ops :
        (Fails(o) /\ ~isKeyMissing)
          => (isKeyMissing' <=> Includes(thrown', "not found")) ]_vars

\* C10: a URL operation whose LinkResolution carries a URL calls
\* resolveAudioLink, fetch, translateAudio, synthesizeSpeech in that order and
\* never translateText; one whose LinkResolution carries only text calls
\* resolveAudioLink, translateText, synthesizeSpeech and never translateAudio;
\* a LinkResolution carrying both a URL and text takes the audio branch.
LinksWithUrl ==
  [ ok : {TRUE}, url : HttpUrls, textContent : {Null, "", Rep(1), Rep(51)},
    message : {Null} ]

C10_BranchByLinkResolution ==
  /\ \A link \in LinksWithUrl : Branch(link) = "audio"
  /\ \A o \in DOMAIN ops :
       ops[o].kind = "url" =>
         /\ Truthy(ops[o].sniff.url) =>
              IsPrefix(ops[o].calls,
                <<"resolveAudioLink", "fetch", "translateAudio", "synthesizeSpeech">>)
         /\ (~Truthy(ops[o].sniff.url) /\ Truthy(ops[o].sniff.textContent)) =>
              IsPrefix(ops[o].calls,
                <<"resolveAudioLink", "translateText", "synthesizeSpeech">>)
         /\ ops[o].sniff.ok \/ Len(ops[o].calls) = 1

C10_Witness ==
  \E a, t \in DOMAIN ops :
    /\ ops[a].kind = "url" /\ ops[a].pc = "done" /\ Truthy(ops[a].sniff.url)
    /\ ops[a].calls = <<"resolveAudioLink", "fetch", "translateAudio", "synthesizeSpeech">>
    /\ ops[t].kind = "url" /\ ops[t].pc = "done" /\ Truthy(ops[t].sniff.textContent)
    /\ ops[t].calls = <<"resolveAudioLink", "translateText", "synthesizeSpeech">>

\* Operation o has called translateAudio.
UsesTranslateAudio(o) ==
  \E i \in DOMAIN ops[o].calls : ops[o].calls[i] = "translateAudio"

\* The expected structured shape: parseable, with original, translated and
\* summary.
WellShaped(data) ==
  /\ data.kind = "json"
  /\ Truthy(data.original.chars)
  /\ Truthy(data.translated.chars)
  /\ data.summary.present

\* C11: translateAudio returns successfully only from a response of the
\* expected shape (parseable, with original, translated and summary), so an
\* operation goes on to synthesis only from such a response, and no displayed
\* result has an empty text or an empty summary in the place of a missing field.
C11_MalformedTranscriptNeverSucceeds ==
  /\ \A o \in DOMAIN ops :
       (UsesTranslateAudio(o) /\ ops[o].translation.ok) => WellShaped(ops[o].heard)
  /\ result # NoResult =>
       /\ result.originalText # EmptyText
       /\ result.translatedText # EmptyText
       /\ result.summary # EmptySummary

\* Operation o is waiting on a speech call.
AwaitsSpeech(o) == ops[o].pc \in {"synthesizeSpeech", "synthesizeText"}

\* C12: synthesizeSpeech throws the synthesis failure on every response
\* without an audio payload (absent or empty); the operation whose speech call
\* was answered that way writes status ERROR with that failure and leaves the
\* result as it was, in the file workflow and in the URL text branch, and a
\* failed operation is never the one whose result is displayed.
C12_NoPayloadFailsWithoutResult ==
  [][ /\ \A base64Audio \in Payloads :
           ~Truthy(base64Audio) =>
             \A lang \in {"zh", "en"} :
               SynthesizeSpeech(Text(1, "translated"), lang, base64Audio)
                 = SpeechError(SynthesisFailedMsg)
      /\ \A o \in DOMAIN ops :
           /\ (Fails(o) /\ thrown' = SynthesisFailedMsg) =>
                /\ AwaitsSpeech(o)
                /\ processing'.status = "ERROR"
                /\ processing'.error = SynthesisFailedMsg
                /\ result' = result
           /\ ops'[o].pc = "failed" => result'.op # o ]_vars

C12_Witness ==
  \E f, u \in DOMAIN ops :
    /\ ops[f].kind = "file" /\ ops[f].pc = "failed"
    /\ ops[f].calls = <<"translateAudio", "synthesizeSpeech">>
    /\ ops[u].kind = "url" /\ ops[u].pc = "failed"
    /\ ops[u].calls = <<"resolveAudioLink", "translateText", "synthesizeSpeech">>
    /\ thrown = SynthesisFailedMsg
    /\ processing.status = "ERROR"
    /\ result = NoResult

\* C13: the status never returns to IDLE once it has left IDLE, and from
\* COMPLETED or ERROR the status changes only to UPLOADING, in a step that
\* starts a fresh operation.
C13_TerminalStatusOnlyRestarts ==
  [][ /\ processing'.status = "IDLE" => processing.status = "IDLE"
      /\ (processing.status \in {"COMPLETED", "ERROR"}
            /\ processing'.status # processing.status)
           => (processing'.status = "UPLOADING" /\ Len(ops') = Len(ops) + 1) ]_vars

\* The operations the captures handed over, in order of start.
RecordOps == { o \in DOMAIN ops : ops[o].kind = "record" }

\* C14: each stopped capture hands over one blob, made of the data of that
\* capture alone (one chunk, delivered when it stops); no two blobs come from
\* the same capture; and a stop request while no capture is shown as active
\* stops no recorder and starts no operation.
C14_OneBlobPerCapture ==
  [][ /\ \A o \in RecordOps' :
           /\ Len(ops'[o].blob) = 1
           /\ recs'[ops'[o].blob[1]] = "inactive"
           /\ \A q \in RecordOps' : q # o => ops'[q].blob # ops'[o].blob
      /\ Cardinality(RecordOps') = Cardinality({ r \in DOMAIN recs' : recs'[r] = "inactive" })
      /\ ~isRecording =>
           /\ \A r \in DOMAIN recs : recs[r] = "recording" => recs'[r] = "recording"
           /\ isRecording' => Len(recs') = Len(recs) + 1 ]_vars

\* A text of the displayed result is operation o's, or a literal the code of
\* that operation put in the place of an absent field.
FromOperation(t, o) == t.from = o \/ t = EmptyText

\* C15: in status COMPLETED a result is displayed, and a displayed result is
\* the work of one operation that ran to its end: its texts and summary are
\* that operation's, its target language is the one the operation ran with,
\* and its audio speaks its own translated text (cut to 1000 characters) in
\* the voice of its target language.
C15_ResultOfOneOperation ==
  /\ processing.status = "COMPLETED" => result # NoResult
  /\ result # NoResult =>
       /\ result.op \in DOMAIN ops
       /\ ops[result.op].pc = "done"
       /\ FromOperation(result.originalText, result.op)
       /\ FromOperation(result.translatedText, result.op)
       /\ result.summary.from = result.op \/ result.summary = EmptySummary
       /\ result.targetLang = TargetLangOf(result.op)
       /\ result.audio.voice = VoiceName(result.targetLang)
       /\ result.audio.spoken.from = result.translatedText.from
       /\ result.audio.spoken.chars = Substring0(result.translatedText.chars, 1000)

\* Two operations overlapped and both ran to their end; the earlier one's
\* result is displayed.
C15_Witness ==
  /\ processing.status = "COMPLETED"
  /\ Len(ops) = 2
  /\ ops[1].pc = "done" /\ ops[2].pc = "done"
  /\ ops[1].kind = "file" /\ ops[2].kind = "url"
  /\ ops[2].calls = <<"resolveAudioLink", "translateText", "synthesizeSpeech">>
  /\ result.op = 1
  /\ result.translatedText = Text(1, "translated")

\* C17: whenever playback is active a result is displayed.
C17_PlaybackOnlyOfDisplayedResult ==
  isPlaying => result # NoResult

\* No remote call is outstanding.
Settled == \A o \in DOMAIN ops : ops[o].pc \notin Waiting

\* C16: when every remote call eventually answers or rejects, every started
\* operation comes to its end, completed or failed, and whenever no remote
\* call is outstanding the status is not UPLOADING or SYNTHESIZING.
C16_EveryOperationEnds ==
  /\ [](Settled => processing.status \in {"IDLE", "COMPLETED", "ERROR"})
  /\ \A o \in 1..MaxOps :
       (o \in DOMAIN ops) ~> (o \in DOMAIN ops /\ ops[o].pc \in {"done", "failed"})

\* An operation of each workflow has run to its end, none is outstanding.
C16_Witness ==
  /\ Len(ops) = 2
  /\ Settled
  /\ ops[1].kind = "record" /\ ops[1].pc = "done"
  /\ ops[2].kind = "url" /\ ops[2].pc = "failed"
  /\ ops[2].calls = <<"resolveAudioLink", "fetch", "translateAudio">>
  /\ processing.status = "ERROR"

====
